---- MODULE Spec2Model ----
(***************************************************************************)
(* Model of drivers/input/mouse/byd.c, the PS/2 driver of the BYD          *)
(* BTP-10463 touchpad: the packet decoder byd_process_byte, the            *)
(* touch-liveness timer byd_clear_touch, and the handshake of byd_detect,  *)
(* byd_init and byd_reconnect.                                             *)
(***************************************************************************)
EXTENDS Integers, Sequences, FiniteSets, TLC

VARIABLES
    priv,          \* struct byd_data: the TouchState of the session
    timer_pending, \* priv->timer is queued on the timer wheel
    timer_left,    \* ticks until the queued timer's deadline
    now,           \* jiffies_to_msecs(jiffies), the 32-bit ms clock, in ticks of TickMs
    lock,          \* holder of serio->lock: "free", "rx" or "timer"
    pc,            \* position of the receive path inside byd_process_byte
    packet,        \* psmouse->packet of the packet being decoded
    now_msecs,     \* the local now_msecs of the decode step in progress
    pre,           \* TouchState at entry of the decode step in progress
    pktcnt,        \* psmouse->pktcnt: bytes of the next packet already received
    hpc,           \* position of the timer handler byd_clear_touch
    reports,       \* reports emitted by the operation in progress
    released,      \* the handler cleared touch and no packet has set it since
    npackets,      \* full packets decoded so far
    nticks,        \* clock ticks so far
    hs_pc,         \* position of the handshake inside byd_detect / byd_init
    attempt,       \* the attempt in progress or last finished: "connect", "reconnect"
    session,       \* "none", "bound" (handshake succeeded) or "failed" (reconnect failed)
    param,         \* unsigned char param[4] of the function in progress
    knock,         \* commands of a command run already issued
    i,             \* loop index of byd_init over init_commands
    error,         \* int error of byd_init
    detect_ret,    \* <<return value>> of byd_detect in this attempt, <<>> before
    init_ret,      \* <<return value>> of byd_init in this attempt, <<>> before
    ret,           \* <<outcome>> of the attempt, <<>> while it runs
    sent,          \* commands issued to the device in this attempt, in order
    active,        \* the device is activated (reports packets)
    private,       \* psmouse->private: "NULL" or "set"
    live,          \* TouchStates allocated and not freed
    allocated,     \* this attempt allocated a TouchState
    magic,         \* the 4 bytes this attempt read back from the magic query, or <<>>
    nattempts,     \* handshake attempts started so far
    old_timers     \* deadlines of the armed timers of TouchStates that byd_init replaced

svars == <<priv, timer_pending, timer_left, now, lock, pc, packet, now_msecs,
           pre, pktcnt, hpc, reports, released, npackets, nticks>>

hvars == <<hs_pc, attempt, session, param, knock, i, error, detect_ret, init_ret,
           ret, sent, active, private, live, allocated, magic, nattempts,
           old_timers>>

vars == <<svars, hvars>>

----------------------------------------------------------------------------
(* Bounds of the model *)

MaxPackets == 2
MaxTicks == 3
MaxAttempts == 2

(* Program constants *)

BYD_CONST_PAD_WIDTH == 11264
BYD_CONST_PAD_HEIGHT == 6656
BYD_PKT_RELATIVE == 0
BYD_PKT_ABSOLUTE == 248
BYD_PKT_PINCH_IN == 216
BYD_PKT_TWO_FINGER_SCROLL_RIGHT == 42
BYD_PKT_TWO_FINGER_SCROLL_DOWN == 43
BYD_PKT_TWO_FINGER_SCROLL_UP == 213
BYD_PKT_TWO_FINGER_SCROLL_LEFT == 214
PktSize == 4
DebounceMs == 64
TimeoutMs == 32
RelScale == 11

(* errno values returned by the handshake *)
EIO == 5
ENOMEM == 12
EINVAL == 22

(* vendor command codes of init_commands *)
BYD_CMD_SET_PHYSICAL_BUTTONS == 208
BYD_CMD_SET_ABSOLUTE_MODE == 209
BYD_CMD_SET_TWO_FINGER_SCROLL == 210
BYD_CMD_SET_HANDEDNESS == 211
BYD_CMD_SET_TAP == 212
BYD_CMD_SET_ONE_FINGER_SCROLL == 215
BYD_CMD_SET_EDGE_MOTION == 219
BYD_CMD_SET_LEFT_EDGE_REGION == 220
BYD_CMD_SET_TOP_EDGE_REGION == 221
BYD_CMD_SET_PALM_CHECK == 222
BYD_CMD_SET_RIGHT_EDGE_REGION == 223
BYD_CMD_SET_BOTTOM_EDGE_REGION == 225
BYD_CMD_SET_MULTITOUCH == 227
BYD_CMD_SET_TWO_FINGER_SCROLL_FUNC == 229
CmdModeCode == 226
CmdIdentCode == 224
IntelliMouseId == 3

(* One clock tick of the model, in ms: the timer period. Every time of the *)
(* model is a multiple of it, and times are counted in ticks.             *)
TickMs == TimeoutMs
TimeoutTicks == TimeoutMs \div TickMs
DebounceTicks == DebounceMs \div TickMs

----------------------------------------------------------------------------
(* Fixed-width arithmetic *)

Pow2(n) == 2 ^ n

\* the uint32_t millisecond clock wraps at 2^32 ms, that is at 2^27 ticks of 32 ms
ClockModulus == Pow2(27)

\* uint32_t arithmetic of now_msecs and last_touch_time, in ticks
U32(x) == x % ClockModulus

\* int32_t abs_x, abs_y: TLC's integers are 32-bit themselves, and TLC stops
\* with an error on any overflow, so no reachable value needs wrapping
S32(x) == x

\* int16_t rel_x : 9, rel_y : 9
S9(x) == ((x + 256) % 512) - 256

\* int8_t vertical_scroll : 2, horizontal_scroll : 2
S2(x) == ((x + 2) % 4) - 2

\* bit n of byte b
Bit(b, n) == (b \div Pow2(n)) % 2

\* (b << sh) & 0x100 for a byte b
ShiftMask100(b, sh) == Bit(b, 8 - sh) * 256

----------------------------------------------------------------------------
(* The packet decoder: pure parts of byd_process_byte and byd_report_input *)

\* kzalloc + memset(priv, 0x00, sizeof(*priv)) in byd_init
ZeroPriv ==
    [abs_x |-> 0, abs_y |-> 0, last_touch_time |-> 0, rel_x |-> 0, rel_y |-> 0,
     button_left |-> 0, button_right |-> 0, touch |-> 0,
     vertical_scroll |-> 0, horizontal_scroll |-> 0]

\* no packet is being decoded
NoPacket == <<>>

\* byd_report_input: the values handed to the input layer by one report
ReportOf(p) ==
    [ABS_X |-> p.abs_x, ABS_Y |-> p.abs_y,
     BTN_LEFT |-> p.button_left, BTN_RIGHT |-> p.button_right,
     BTN_TOUCH |-> p.touch,
     BTN_0 |-> IF p.vertical_scroll = 1 THEN 1 ELSE 0,
     BTN_1 |-> IF p.vertical_scroll = -1 THEN 1 ELSE 0,
     BTN_2 |-> IF p.horizontal_scroll = 1 THEN 1 ELSE 0,
     BTN_3 |-> IF p.horizontal_scroll = -1 THEN 1 ELSE 0,
     BTN_TOOL_FINGER |-> 1]

\* the debounce with >= in place of >
Debounced_Inclusive(t, last) == U32(t - last) >= DebounceTicks

\* now_msecs - priv->last_touch_time > 64, in uint32_t arithmetic
Debounced(t, last) == U32(t - last) > DebounceTicks

\* an absolute case that does not look at touch
DecodeAbsolute_MidTouch(p, pk, t) ==
    [p EXCEPT
        !.button_left = Bit(pk[1], 0),
        !.button_right = Bit(pk[1], 1),
        !.abs_x = pk[2] * (BYD_CONST_PAD_WIDTH \div 256),
        !.abs_y = (255 - pk[3]) * (BYD_CONST_PAD_HEIGHT \div 256),
        !.touch = IF U32(t - p.last_touch_time) > DebounceTicks THEN 1 ELSE p.touch]

\* case BYD_PKT_ABSOLUTE
DecodeAbsolute(p, pk, t) ==
    IF p.touch = 0
    THEN [p EXCEPT
            !.button_left = Bit(pk[1], 0),
            !.button_right = Bit(pk[1], 1),
            !.abs_x = S32(pk[2] * (BYD_CONST_PAD_WIDTH \div 256)),
            !.abs_y = S32((255 - pk[3]) * (BYD_CONST_PAD_HEIGHT \div 256)),
            !.touch = IF Debounced(t, p.last_touch_time) THEN 1 ELSE p.touch]
    ELSE p

\* rel_x without the test of packet[1]
RelX_NoZeroTest(pk) == S9(pk[2] - ShiftMask100(pk[1], 4))

\* packet[1] ? (int) packet[1] - (int) ((packet[0] << 4) & 0x100) : 0
RelX(pk) == S9(IF pk[2] # 0 THEN pk[2] - ShiftMask100(pk[1], 4) ELSE 0)

\* rel_y read like rel_x: byte 2 minus the sign taken from bit 3 of byte 0
RelY_Bit3(pk) == S9(IF pk[3] # 0 THEN pk[3] - ShiftMask100(pk[1], 5) ELSE 0)

\* packet[2] ? (int) ((packet[0] << 3) & 0x100) - (int) packet[2] : 0
RelY(pk) == S9(IF pk[3] # 0 THEN ShiftMask100(pk[1], 3) - pk[3] ELSE 0)

\* a relative case that leaves touch as it was
DecodeRelative_TouchKept(p, pk) ==
    [p EXCEPT
        !.button_left = Bit(pk[1], 0),
        !.button_right = Bit(pk[1], 1),
        !.rel_x = RelX(pk),
        !.rel_y = RelY(pk),
        !.abs_x = S32(p.abs_x + RelX(pk) * RelScale),
        !.abs_y = S32(p.abs_y + RelY(pk) * RelScale)]

\* case BYD_PKT_RELATIVE
DecodeRelative(p, pk) ==
    [p EXCEPT
        !.button_left = Bit(pk[1], 0),
        !.button_right = Bit(pk[1], 1),
        !.rel_x = RelX(pk),
        !.rel_y = RelY(pk),
        !.abs_x = S32(p.abs_x + RelX(pk) * RelScale),
        !.abs_y = S32(p.abs_y + RelY(pk) * RelScale),
        !.touch = 1]

\* the scroll cases: the value written to the tri-state field before the report
ScrollSet(p, type) ==
    CASE type = BYD_PKT_TWO_FINGER_SCROLL_UP -> [p EXCEPT !.vertical_scroll = S2(1)]
      [] type = BYD_PKT_TWO_FINGER_SCROLL_DOWN -> [p EXCEPT !.vertical_scroll = S2(-1)]
      [] type = BYD_PKT_TWO_FINGER_SCROLL_RIGHT -> [p EXCEPT !.horizontal_scroll = S2(-1)]
      [] type = BYD_PKT_TWO_FINGER_SCROLL_LEFT -> [p EXCEPT !.horizontal_scroll = S2(1)]

\* a scroll case that leaves its field set after the report
ScrollClear_Kept(p, type) == p

\* the scroll cases: the field is cleared after the report
ScrollClear(p, type) ==
    IF type \in {BYD_PKT_TWO_FINGER_SCROLL_UP, BYD_PKT_TWO_FINGER_SCROLL_DOWN}
    THEN [p EXCEPT !.vertical_scroll = 0]
    ELSE [p EXCEPT !.horizontal_scroll = 0]

ScrollTypes ==
    {BYD_PKT_TWO_FINGER_SCROLL_UP, BYD_PKT_TWO_FINGER_SCROLL_DOWN,
     BYD_PKT_TWO_FINGER_SCROLL_RIGHT, BYD_PKT_TWO_FINGER_SCROLL_LEFT}

----------------------------------------------------------------------------
(* Inputs of the model *)

\* byte 0: buttons (bits 0, 1), bit 3, X sign (bit 4), the bit 5 read by rel_y
Byte0Values == {0, 17, 34, 8}
Byte1Values == {0, 127}
Byte2Values == {0, 255}

\* packets whose bytes 0..2 are read (relative, absolute) and packets of which
\* only the type byte is read (scroll, and pinch-in as an unhandled type)
Packets ==
    { <<b0, b1, b2, ty>> : b0 \in Byte0Values, b1 \in Byte1Values, b2 \in Byte2Values,
                           ty \in {BYD_PKT_RELATIVE, BYD_PKT_ABSOLUTE} }
    \cup { <<0, 0, 0, ty>> : ty \in ScrollTypes \cup {BYD_PKT_PINCH_IN} }

\* the millisecond clock starts anywhere; two values, one just below the wrap
StartTimes == {0, ClockModulus - 1}

----------------------------------------------------------------------------
(* The handshake: tables *)

\* BYD_CMD_PAIR(c): (1 << 12) | c
BYD_CMD_PAIR(c) == 4096 + c

\* BYD_CMD_PAIR_R(r, c): (1 << 12) | (r << 8) | c
BYD_CMD_PAIR_R(r, c) == 4096 + r * 256 + c

init_commands ==
    << <<BYD_CMD_SET_HANDEDNESS, 1>>,
       <<BYD_CMD_SET_PHYSICAL_BUTTONS, 4>>,
       <<BYD_CMD_SET_TAP, 2>>,
       <<BYD_CMD_SET_ONE_FINGER_SCROLL, 4>>,
       <<BYD_CMD_SET_EDGE_MOTION, 1>>,
       <<BYD_CMD_SET_PALM_CHECK, 0>>,
       <<BYD_CMD_SET_MULTITOUCH, 1>>,
       <<BYD_CMD_SET_TWO_FINGER_SCROLL, 3>>,
       <<BYD_CMD_SET_TWO_FINGER_SCROLL_FUNC, 0>>,
       <<BYD_CMD_SET_LEFT_EDGE_REGION, 0>>,
       <<BYD_CMD_SET_TOP_EDGE_REGION, 0>>,
       <<BYD_CMD_SET_RIGHT_EDGE_REGION, 0>>,
       <<BYD_CMD_SET_BOTTOM_EDGE_REGION, 0>>,
       <<BYD_CMD_SET_ABSOLUTE_MODE, 2>> >>

\* byd_model_data: the signatures of the known models
byd_model_data == << <<3, 100>> >>

\* the loop of byd_detect over byd_model_data: the index of the first entry
\* that equals param[1..2], or Len + 1 when none does
ModelIndex(pm) ==
    IF \E k \in 1..Len(byd_model_data) : byd_model_data[k] = <<pm[2], pm[3]>>
    THEN CHOOSE k \in 1..Len(byd_model_data) :
            /\ byd_model_data[k] = <<pm[2], pm[3]>>
            /\ \A j \in 1..(k - 1) : byd_model_data[j] # <<pm[2], pm[3]>>
    ELSE Len(byd_model_data) + 1

\* a magic check that leaves the last byte out
MagicMismatch_ThreeBytes(pm) == pm[1] # 8 \/ pm[2] # 1 \/ pm[3] # 1

\* param[0] != 0x08 || param[1] != 0x01 || param[2] != 0x01 || param[3] != 0x31
MagicMismatch(pm) == pm[1] # 8 \/ pm[2] # 1 \/ pm[3] # 1 \/ pm[4] # 49

\* one ps2_command or psmouse primitive issued to the device, and whether the
\* transport completed it
Cmd(op, code, value, ok) == [op |-> op, cmd |-> code, param |-> value, ok |-> ok]

\* the sample rates of the probe at the start of byd_init
InitRates == <<200, 100, 80>>

----------------------------------------------------------------------------
(* The handshake: what the device may answer *)

\* bytes 1..2 of the GETINFO response: the known signature and its neighbours
SignatureValues == {<<3, 100>>, <<3, 101>>, <<4, 100>>, <<100, 3>>}

\* the response to the magic query: the magic and each single-byte deviation
MagicValues == {<<8, 1, 1, 49>>, <<9, 1, 1, 49>>, <<8, 0, 1, 49>>,
                <<8, 1, 2, 49>>, <<8, 1, 1, 48>>}

\* the GETID response
IdValues == {3, 0}

\* the handshake state of a bound session: byd_init succeeded, the device is active
BoundSession ==
    /\ hs_pc = "idle"
    /\ attempt = "none"
    /\ session = "bound"
    /\ param = <<0, 0, 0, 0>>
    /\ knock = 0
    /\ i = 0
    /\ error = 0
    /\ detect_ret = <<>>
    /\ init_ret = <<>>
    /\ ret = <<>>
    /\ sent = <<>>
    /\ active = TRUE
    /\ private = "set"
    /\ live = 1
    /\ allocated = FALSE
    /\ magic = <<>>
    /\ nattempts = 0
    /\ old_timers = <<>>

----------------------------------------------------------------------------
(* Streaming: the state after a successful byd_init *)

Init ==
    /\ priv = ZeroPriv
    /\ timer_pending = FALSE
    /\ timer_left = 0
    /\ now \in StartTimes
    /\ lock = "free"
    /\ pc = "idle"
    /\ packet = NoPacket
    /\ now_msecs = 0
    /\ pre = ZeroPriv
    /\ pktcnt = 0
    /\ hpc = "none"
    /\ reports = <<>>
    /\ released = FALSE
    /\ npackets = 0
    /\ nticks = 0
    /\ BoundSession

\* time passes while no handler runs; a queued timer fires at its deadline
Tick ==
    /\ pc = "idle" /\ hpc = "none"
    /\ nticks < MaxTicks
    /\ timer_pending => timer_left >= 1
    /\ \A k \in 1..Len(old_timers) : old_timers[k] # now
    /\ now' = U32(now + 1)
    /\ timer_left' = IF timer_pending THEN timer_left - 1 ELSE timer_left
    /\ nticks' = nticks + 1
    /\ UNCHANGED <<priv, timer_pending, lock, pc, packet, now_msecs, pre, pktcnt,
                   hpc, reports, released, npackets>>
    /\ UNCHANGED hvars

\* byd_process_byte on a byte that does not complete the packet
ProcessPartialByte ==
    /\ pc = "idle" /\ lock = "free"
    /\ npackets < MaxPackets
    /\ pktcnt + 1 < PktSize
    /\ pktcnt' = pktcnt + 1
    /\ UNCHANGED <<priv, timer_pending, timer_left, now, lock, pc, packet, now_msecs,
                   pre, hpc, reports, released, npackets, nticks>>
    /\ UNCHANGED hvars

\* byd_process_byte entered with the last byte of a packet, under serio->lock
ProcessFullPacket(pk) ==
    /\ pc = "idle" /\ lock = "free"
    /\ npackets < MaxPackets
    /\ pktcnt + 1 = PktSize
    /\ lock' = "rx"
    /\ packet' = pk
    /\ now_msecs' = now
    /\ pre' = priv
    /\ pc' = "switch"
    /\ UNCHANGED <<priv, timer_pending, timer_left, now, pktcnt, hpc, reports,
                   released, npackets, nticks>>
    /\ UNCHANGED hvars

CaseAbsolute ==
    /\ pc = "switch" /\ packet[4] = BYD_PKT_ABSOLUTE
    /\ priv' = DecodeAbsolute(priv, packet, now_msecs)
    /\ released' = IF priv.touch = 0 /\ priv'.touch = 1 THEN FALSE ELSE released
    /\ pc' = "report"
    /\ UNCHANGED <<timer_pending, timer_left, now, lock, packet, now_msecs, pre,
                   pktcnt, hpc, reports, npackets, nticks>>
    /\ UNCHANGED hvars

CaseRelative ==
    /\ pc = "switch" /\ packet[4] = BYD_PKT_RELATIVE
    /\ priv' = DecodeRelative(priv, packet)
    /\ released' = FALSE
    /\ pc' = "report"
    /\ UNCHANGED <<timer_pending, timer_left, now, lock, packet, now_msecs, pre,
                   pktcnt, hpc, reports, npackets, nticks>>
    /\ UNCHANGED hvars

CaseScroll ==
    /\ pc = "switch" /\ packet[4] \in ScrollTypes
    /\ priv' = ScrollSet(priv, packet[4])
    /\ pc' = "scroll_report"
    /\ UNCHANGED <<timer_pending, timer_left, now, lock, packet, now_msecs, pre,
                   pktcnt, hpc, reports, released, npackets, nticks>>
    /\ UNCHANGED hvars

\* byd_report_input inside a scroll case
ScrollReport ==
    /\ pc = "scroll_report"
    /\ reports' = Append(reports, ReportOf(priv))
    /\ pc' = "scroll_clear"
    /\ UNCHANGED <<priv, timer_pending, timer_left, now, lock, packet, now_msecs,
                   pre, pktcnt, hpc, released, npackets, nticks>>
    /\ UNCHANGED hvars

ScrollClearField ==
    /\ pc = "scroll_clear"
    /\ priv' = ScrollClear(priv, packet[4])
    /\ pc' = "report"
    /\ UNCHANGED <<timer_pending, timer_left, now, lock, packet, now_msecs, pre,
                   pktcnt, hpc, reports, released, npackets, nticks>>
    /\ UNCHANGED hvars

\* a type byte with no case in the switch
CaseDefault ==
    /\ pc = "switch"
    /\ packet[4] \notin ScrollTypes \cup {BYD_PKT_ABSOLUTE, BYD_PKT_RELATIVE}
    /\ pc' = "report"
    /\ UNCHANGED <<priv, timer_pending, timer_left, now, lock, packet, now_msecs,
                   pre, pktcnt, hpc, reports, released, npackets, nticks>>
    /\ UNCHANGED hvars

\* the byd_report_input that follows the switch
FinalReport ==
    /\ pc = "report"
    /\ reports' = Append(reports, ReportOf(priv))
    /\ pc' = "rearm"
    /\ UNCHANGED <<priv, timer_pending, timer_left, now, lock, packet, now_msecs,
                   pre, pktcnt, hpc, released, npackets, nticks>>
    /\ UNCHANGED hvars

\* a re-arm that tests for touch == 0
RearmTouched_Released(p) == p.touch = 0

\* if (priv->touch == 1) { last_touch_time = now_msecs; mod_timer(.., 32 ms) }
RearmTouched(p) == p.touch = 1

Rearm ==
    /\ pc = "rearm"
    /\ IF RearmTouched(priv)
       THEN /\ priv' = [priv EXCEPT !.last_touch_time = now_msecs]
            /\ timer_pending' = TRUE
            /\ timer_left' = TimeoutTicks
       ELSE UNCHANGED <<priv, timer_pending, timer_left>>
    /\ pc' = "ret"
    /\ UNCHANGED <<now, lock, packet, now_msecs, pre, pktcnt, hpc, reports,
                   released, npackets, nticks>>
    /\ UNCHANGED hvars

\* return PSMOUSE_FULL_PACKET: the caller resets pktcnt and drops serio->lock
Return ==
    /\ pc = "ret"
    /\ pc' = "idle"
    /\ lock' = "free"
    /\ packet' = NoPacket
    /\ now_msecs' = 0
    /\ pre' = ZeroPriv
    /\ pktcnt' = 0
    /\ reports' = <<>>
    /\ npackets' = npackets + 1
    /\ UNCHANGED <<priv, timer_pending, timer_left, now, hpc, released, nticks>>
    /\ UNCHANGED hvars

----------------------------------------------------------------------------
(* The touch-liveness timer *)

\* the timer wheel dequeues the expired timer and calls byd_clear_touch
Expire ==
    /\ timer_pending /\ timer_left = 0
    /\ hpc = "none"
    /\ timer_pending' = FALSE
    /\ hpc' = "wait"
    /\ UNCHANGED <<priv, timer_left, now, lock, pc, packet, now_msecs, pre, pktcnt,
                   reports, released, npackets, nticks>>
    /\ UNCHANGED hvars

\* a handler that does not wait for serio->lock
ClearTouchPause_NoLock ==
    /\ hpc = "wait"
    /\ lock' = "timer"
    /\ hpc' = "locked"
    /\ UNCHANGED <<priv, timer_pending, timer_left, now, pc, packet, now_msecs, pre,
                   pktcnt, reports, released, npackets, nticks>>
    /\ UNCHANGED hvars

\* serio_pause_rx: take serio->lock
ClearTouchPause ==
    /\ hpc = "wait" /\ lock = "free"
    /\ lock' = "timer"
    /\ hpc' = "locked"
    /\ UNCHANGED <<priv, timer_pending, timer_left, now, pc, packet, now_msecs, pre,
                   pktcnt, reports, released, npackets, nticks>>
    /\ UNCHANGED hvars

\* a handler that leaves touch as it was
ClearTouchWrite_KeepsTouch ==
    /\ hpc = "locked"
    /\ priv' = priv
    /\ released' = TRUE
    /\ hpc' = "wrote"
    /\ UNCHANGED <<timer_pending, timer_left, now, lock, pc, packet, now_msecs, pre,
                   pktcnt, reports, npackets, nticks>>
    /\ UNCHANGED hvars

\* priv->touch = 0
ClearTouchWrite ==
    /\ hpc = "locked"
    /\ priv' = [priv EXCEPT !.touch = 0]
    /\ released' = TRUE
    /\ hpc' = "wrote"
    /\ UNCHANGED <<timer_pending, timer_left, now, lock, pc, packet, now_msecs, pre,
                   pktcnt, reports, npackets, nticks>>
    /\ UNCHANGED hvars

\* byd_report_input(psmouse)
ClearTouchReport ==
    /\ hpc = "wrote"
    /\ reports' = Append(reports, ReportOf(priv))
    /\ hpc' = "reported"
    /\ UNCHANGED <<priv, timer_pending, timer_left, now, lock, pc, packet, now_msecs,
                   pre, pktcnt, released, npackets, nticks>>
    /\ UNCHANGED hvars

\* serio_continue_rx: drop serio->lock; the handler returns
ClearTouchContinue ==
    /\ hpc = "reported"
    /\ lock' = "free"
    /\ hpc' = "none"
    /\ reports' = <<>>
    /\ UNCHANGED <<priv, timer_pending, timer_left, now, pc, packet, now_msecs, pre,
                   pktcnt, released, npackets, nticks>>
    /\ UNCHANGED hvars

Next ==
    \/ Tick
    \/ ProcessPartialByte
    \/ \E pk \in Packets : ProcessFullPacket(pk)
    \/ CaseAbsolute
    \/ CaseRelative
    \/ CaseScroll
    \/ ScrollReport
    \/ ScrollClearField
    \/ CaseDefault
    \/ FinalReport
    \/ Rearm
    \/ Return
    \/ Expire
    \/ ClearTouchPause
    \/ ClearTouchWrite
    \/ ClearTouchReport
    \/ ClearTouchContinue

Spec == Init /\ [][Next]_vars

\* a decode step that has started runs to its return: the steps of
\* byd_process_byte after its entry
DecodeStep ==
    \/ CaseAbsolute
    \/ CaseRelative
    \/ CaseScroll
    \/ ScrollReport
    \/ ScrollClearField
    \/ CaseDefault
    \/ FinalReport
    \/ Rearm
    \/ Return

\* a handler that was called runs to its return: the steps of byd_clear_touch
HandlerStep ==
    \/ ClearTouchPause
    \/ ClearTouchWrite
    \/ ClearTouchReport
    \/ ClearTouchContinue

\* Spec with a fair scheduler: time passes, the timer wheel calls the handler
\* of an expired timer, and code that has started keeps running; the arrival
\* of bytes from the device is not forced
SpecFair ==
    /\ Spec
    /\ WF_vars(Tick)
    /\ WF_vars(Expire)
    /\ WF_vars(HandlerStep)
    /\ WF_vars(DecodeStep)

----------------------------------------------------------------------------
(* Properties of the packet decoder and of the touch-liveness timer,       *)
(* checked under Spec                                                      *)

\* the scroll pseudo-buttons a report shows pressed
ScrollButtons(r) ==
    {b \in {"BTN_0", "BTN_1", "BTN_2", "BTN_3"} : r[b] = 1}

\* the pseudo-button of each scroll packet type
ScrollButtonOf(type) ==
    CASE type = BYD_PKT_TWO_FINGER_SCROLL_UP -> "BTN_0"
      [] type = BYD_PKT_TWO_FINGER_SCROLL_DOWN -> "BTN_1"
      [] type = BYD_PKT_TWO_FINGER_SCROLL_LEFT -> "BTN_2"
      [] type = BYD_PKT_TWO_FINGER_SCROLL_RIGHT -> "BTN_3"

\* the decode step in progress has emitted its last report
AfterFinalReport == pc \in {"rearm", "ret"}

\* C1: a scroll packet (0xD5 up, 0x2B down, 0xD6 left, 0x2A right) emits
\* exactly one report with its tri-state field set, shown as exactly its own
\* pseudo-button pressed; every other report (the trailing report of the same
\* step, the reports of packets of other types, the report of the timer
\* handler) shows no scroll button, and both fields are 0 whenever no decode
\* step is in progress.
C1_ScrollPulse ==
    /\ pc = "idle" => priv.vertical_scroll = 0 /\ priv.horizontal_scroll = 0
    /\ hpc \in {"locked", "wrote", "reported"} =>
          priv.vertical_scroll = 0 /\ priv.horizontal_scroll = 0
    /\ \A k \in 1..Len(reports) :
          IF pc # "idle" /\ packet[4] \in ScrollTypes /\ k = 1
          THEN ScrollButtons(reports[k]) = {ScrollButtonOf(packet[4])}
          ELSE ScrollButtons(reports[k]) = {}
    /\ (AfterFinalReport /\ packet[4] \in ScrollTypes) =>
          /\ Len(reports) = 2
          /\ priv.vertical_scroll = 0 /\ priv.horizontal_scroll = 0
    /\ (AfterFinalReport /\ packet[4] \notin ScrollTypes) => Len(reports) = 1

\* C1 witness: the second packet of the run is a scroll-down packet, decoded
\* with its two reports emitted
C1_Witness ==
    /\ pc = "ret" /\ npackets = 1
    /\ packet[4] = BYD_PKT_TWO_FINGER_SCROLL_DOWN
    /\ Len(reports) = 2
    /\ reports[1].BTN_1 = 1 /\ reports[2].BTN_1 = 0

\* C2: an absolute packet (0xF8) decoded while touch == 1 leaves abs_x,
\* abs_y, button_left, button_right and touch as they were before the step.
C2_AbsoluteIgnoredMidTouch ==
    (pc = "ret" /\ packet[4] = BYD_PKT_ABSOLUTE /\ pre.touch = 1) =>
        /\ priv.abs_x = pre.abs_x
        /\ priv.abs_y = pre.abs_y
        /\ priv.button_left = pre.button_left
        /\ priv.button_right = pre.button_right
        /\ priv.touch = pre.touch

\* C2 witness: an absolute packet decoded mid-touch whose coordinates and
\* buttons differ from the state it left alone
C2_Witness ==
    /\ pc = "ret" /\ packet[4] = BYD_PKT_ABSOLUTE /\ pre.touch = 1
    /\ packet[2] * 44 # pre.abs_x
    /\ (255 - packet[3]) * 26 # pre.abs_y
    /\ Bit(packet[1], 0) # pre.button_left

\* C3: a relative packet (0x00) with byte 1 equal to 0 decodes rel_x = 0,
\* with the X sign bit of byte 0 set or clear, and leaves abs_x unchanged;
\* byte 2 equal to 0 gives rel_y = 0 and leaves abs_y unchanged.
C3_ZeroMagnitude ==
    (pc = "ret" /\ packet[4] = BYD_PKT_RELATIVE) =>
        /\ packet[2] = 0 => priv.rel_x = 0 /\ priv.abs_x = pre.abs_x
        /\ packet[3] = 0 => priv.rel_y = 0 /\ priv.abs_y = pre.abs_y

\* C3 witness: a relative packet with the X sign bit set and a zero X byte,
\* decoded from a state whose rel_x was not 0
C3_Witness ==
    /\ pc = "ret" /\ packet[4] = BYD_PKT_RELATIVE
    /\ packet[2] = 0 /\ Bit(packet[1], 4) = 1
    /\ pre.rel_x # 0 /\ pre.abs_x # 0

\* C4, as claimed: the handler clears touch and emits exactly one report,
\* with touch released, and the timer never fires again before a packet has
\* set touch = 1 after that release.
C4_OneExpiryPerTouch ==
    /\ hpc = "reported" => Len(reports) = 1 /\ reports[1].BTN_TOUCH = 0
    /\ hpc = "wait" => ~released

\* the gap now_msecs - last_touch_time of the decode step in progress, in ms
\* when it is at most 64 ms, else 65 (the ms clock wraps at 2^32)
GapMs ==
    IF (now_msecs - pre.last_touch_time) % ClockModulus > 64 \div TickMs
    THEN 65
    ELSE ((now_msecs - pre.last_touch_time) % ClockModulus) * TickMs

\* C8, as claimed: the packet {0x00, 0x7F, 0x00, 0xF8} decoded with
\* touch == 0 sets abs_x = 0x7F * 44 and abs_y = 255 * 104, and touch = 1
\* exactly when the gap exceeds 64 ms.
C8_AsClaimed ==
    (pc = "ret" /\ packet = <<0, 127, 0, 248>> /\ pre.touch = 0) =>
        /\ priv.abs_x = 127 * 44
        /\ priv.abs_y = 255 * 104
        /\ priv.touch = (IF GapMs > 64 THEN 1 ELSE pre.touch)

\* C8, amended: an absolute packet decoded with touch == 0 sets
\* abs_x = packet[1] * 44 and abs_y = (255 - packet[2]) * 26 (PAD_HEIGHT / 256
\* is 26, not 104), so {0x00, 0x7F, 0x00, 0xF8} gives 5588 and 6630; touch
\* becomes 1 exactly when now - last_touch_time > 64 ms, else stays 0.
C8_AbsoluteFirstTouch ==
    (pc = "ret" /\ packet[4] = BYD_PKT_ABSOLUTE /\ pre.touch = 0) =>
        /\ priv.abs_x = packet[2] * 44
        /\ priv.abs_y = (255 - packet[3]) * 26
        /\ packet = <<0, 127, 0, 248>> => priv.abs_x = 5588 /\ priv.abs_y = 6630
        /\ priv.touch = (IF GapMs > 64 THEN 1 ELSE 0)

\* C8 witness: {0x00, 0x7F, 0x00, 0xF8} decoded exactly 64 ms after the last
\* touch-affirming packet, touch left at 0
C8_Witness ==
    /\ pc = "ret" /\ packet = <<0, 127, 0, 248>> /\ pre.touch = 0
    /\ npackets = 1 /\ GapMs = 64
    /\ priv.abs_y = 6630 /\ priv.touch = 0

\* C10, as claimed: while neither a decode step nor the timer handler runs,
\* touch == 1 implies an armed timer with its deadline not in the past, and
\* touch == 0 implies no armed timer.
C10_TouchIffArmed ==
    (pc = "idle" /\ hpc = "none") =>
        /\ priv.touch = 1 => timer_pending /\ timer_left >= 0
        /\ priv.touch = 0 => ~timer_pending

\* C12, as claimed: every report emitted by byd_report_input carries an
\* absolute X in 0..11264 and an absolute Y in 0..6656, the ranges byd_detect
\* declares to the input layer.
C12_ReportInRange ==
    \A k \in 1..Len(reports) :
        /\ reports[k].ABS_X \in 0..BYD_CONST_PAD_WIDTH
        /\ reports[k].ABS_Y \in 0..BYD_CONST_PAD_HEIGHT

\* a decode step or the timer handler is between its entry and its return
\* while holding serio->lock
DecodeRunning == pc # "idle"
HandlerRunning == hpc \in {"locked", "wrote", "reported"}

\* C15: the timer handler and the packet decoder are serialized on the
\* TouchState: the handler never writes touch or reports while a decode step
\* (from its read of touch to its re-arm) is in progress, no decode step
\* starts between the handler's write and its report, each path runs under
\* serio->lock, and each report shows the TouchState as its own path left it.
C15_Serialized ==
    /\ ~(DecodeRunning /\ HandlerRunning)
    /\ DecodeRunning => lock = "rx"
    /\ HandlerRunning => lock = "timer"
    /\ (~DecodeRunning /\ ~HandlerRunning) => lock = "free"
    /\ hpc = "reported" =>
          /\ Len(reports) = 1
          /\ reports[1] = ReportOf(priv)
          /\ reports[1].BTN_TOUCH = 0
    /\ AfterFinalReport =>
          /\ reports[Len(reports)] = ReportOf(priv)
          /\ reports[Len(reports)].BTN_TOUCH =
                (IF packet[4] = BYD_PKT_RELATIVE THEN 1
                 ELSE IF packet[4] = BYD_PKT_ABSOLUTE /\ pre.touch = 0 /\ GapMs > 64 THEN 1
                 ELSE pre.touch)

\* C15 witness: the timer expired while a packet that found touch == 1 was
\* being decoded; the handler waits for the lock while the step finishes
C15_Witness ==
    /\ pc = "ret" /\ hpc = "wait"
    /\ lock = "rx"
    /\ pre.touch = 1 /\ priv.touch = 1

\* C16, as claimed: for a relative packet with non-zero magnitude bytes,
\* rel_x is byte 1 with bit 4 of byte 0 as its 9th (sign) bit and rel_y is
\* byte 2 with bit 3 of byte 0 as its 9th (sign) bit.
C16_AsClaimed ==
    (pc = "ret" /\ packet[4] = BYD_PKT_RELATIVE) =>
        /\ packet[2] # 0 => priv.rel_x = packet[2] - 256 * Bit(packet[1], 4)
        /\ packet[3] # 0 => priv.rel_y = packet[3] - 256 * Bit(packet[1], 3)

\* C16, amended: for a relative packet with non-zero magnitude bytes, rel_x is
\* byte 1 minus 256 times bit 4 of byte 0, and rel_y is 256 times bit 5 of
\* byte 0 minus byte 2 (the Y sign is bit 5, not bit 3, and Y is negated);
\* for all inputs rel_x and rel_y lie in -256..255, are stored in the 9-bit
\* field without truncation, and are a function of the current packet alone.
C16_RelDecode ==
    (pc = "ret" /\ packet[4] = BYD_PKT_RELATIVE) =>
        /\ priv.rel_x = (IF packet[2] # 0 THEN packet[2] - 256 * Bit(packet[1], 4) ELSE 0)
        /\ priv.rel_y = (IF packet[3] # 0 THEN 256 * Bit(packet[1], 5) - packet[3] ELSE 0)
        /\ priv.rel_x \in -256..255
        /\ priv.rel_y \in -256..255

\* C16 witness: a relative packet with bit 5 set and bit 3 clear in byte 0,
\* decoded after a packet that left another rel_x and rel_y behind
C16_Witness ==
    /\ pc = "ret" /\ packet = <<34, 127, 255, 0>>
    /\ pre.rel_y = -255 /\ pre.rel_x = -129
    /\ priv.rel_y = 1 /\ priv.rel_x = 127

\* C17: for every relative packet, whatever the prior state: the buttons are
\* bits 0 and 1 of byte 0, abs_x and abs_y grow by 11 times rel_x and rel_y,
\* touch is 1 after the step (debounce or not), exactly one report is
\* emitted, showing this state, last_touch_time is the time of the step and
\* the timer is armed 32 ms after it.
C17_RelativeStep ==
    (pc = "ret" /\ packet[4] = BYD_PKT_RELATIVE) =>
        /\ priv.button_left = Bit(packet[1], 0)
        /\ priv.button_right = Bit(packet[1], 1)
        /\ priv.abs_x = pre.abs_x + 11 * priv.rel_x
        /\ priv.abs_y = pre.abs_y + 11 * priv.rel_y
        /\ priv.touch = 1
        /\ Len(reports) = 1
        /\ reports[1].ABS_X = priv.abs_x /\ reports[1].ABS_Y = priv.abs_y
        /\ reports[1].BTN_LEFT = priv.button_left
        /\ reports[1].BTN_RIGHT = priv.button_right
        /\ reports[1].BTN_TOUCH = 1
        /\ now_msecs = now
        /\ priv.last_touch_time = now
        /\ timer_pending /\ timer_left * TickMs = 32

\* C17 witness: a relative packet with both deltas negative decoded with
\* touch == 0, within the debounce window, onto a position that was not 0
C17_Witness ==
    /\ pc = "ret" /\ packet = <<17, 127, 255, 0>>
    /\ pre.touch = 0 /\ GapMs <= 64
    /\ pre.abs_x # 0 /\ pre.button_left = 0
    /\ priv.abs_x = pre.abs_x - 129 * 11

\* C19: a full packet that does not set touch itself (an absolute packet
\* ignored mid-touch, a scroll packet, an unrecognized type) processed while
\* touch == 1 leaves touch at 1, refreshes last_touch_time to the time of the
\* step and re-arms the timer 32 ms out, so that no expiry is due; and while
\* packets arrive with less than 32 ms elapsed the handler does not run and
\* no release is reported.
C19_AnyPacketRearms ==
    /\ (pc = "ret" /\ pre.touch = 1 /\ packet[4] # BYD_PKT_RELATIVE) =>
          /\ priv.touch = 1
          /\ now_msecs = now
          /\ priv.last_touch_time = now
          /\ timer_pending /\ timer_left * TickMs = 32
          /\ ~(timer_pending /\ timer_left = 0)
    /\ nticks = 0 => hpc = "none" /\ ~released

\* C19 witness: an unrecognized packet (pinch-in) processed 32 ms after the
\* relative packet that set touch, before the expired timer's handler ran
C19_Witness ==
    /\ pc = "ret" /\ packet[4] = BYD_PKT_PINCH_IN
    /\ pre.touch = 1 /\ npackets = 1
    /\ U32(now_msecs - pre.last_touch_time) = TimeoutTicks
    /\ ~released

\* the handler has just reported the release it wrote
ReleaseReported ==
    /\ hpc = "reported"
    /\ priv.touch = 0
    /\ reports # <<>> /\ reports[Len(reports)].BTN_TOUCH = 0

\* C18: under a fair scheduler, whenever touch == 1 and no further full
\* packet is processed (and the clock of the model can still advance), the
\* handler eventually sets touch = 0 and emits a report with touch released;
\* and touch, once 0, becomes 1 only by the decode step of a packet.
C18_ReleaseLive ==
    /\ \A n \in 0..MaxPackets :
          (priv.touch = 1 /\ npackets = n /\ nticks < MaxTicks)
              ~> (ReleaseReported \/ npackets > n)
    /\ [][(priv.touch = 0 /\ priv'.touch = 1) => pc = "switch"]_vars

\* C18 witness: the handler reports the release after the last packet of the
\* run, which had set touch
C18_Witness ==
    /\ ReleaseReported
    /\ npackets = MaxPackets
    /\ released

----------------------------------------------------------------------------
(* The handshake: byd_detect, byd_init, byd_reconnect, byd_disconnect *)

\* the state before the first connect: no session, psmouse->private is NULL
HInit ==
    /\ priv = ZeroPriv
    /\ timer_pending = FALSE
    /\ timer_left = 0
    /\ now = 0
    /\ lock = "free"
    /\ pc = "idle"
    /\ packet = NoPacket
    /\ now_msecs = 0
    /\ pre = ZeroPriv
    /\ pktcnt = 0
    /\ hpc = "none"
    /\ reports = <<>>
    /\ released = FALSE
    /\ npackets = 0
    /\ nticks = 0
    /\ hs_pc = "idle"
    /\ attempt = "none"
    /\ session = "none"
    /\ param = <<0, 0, 0, 0>>
    /\ knock = 0
    /\ i = 0
    /\ error = 0
    /\ detect_ret = <<>>
    /\ init_ret = <<>>
    /\ ret = <<>>
    /\ sent = <<>>
    /\ active = FALSE
    /\ private = "NULL"
    /\ live = 0
    /\ allocated = FALSE
    /\ magic = <<>>
    /\ nattempts = 0
    /\ old_timers = <<>>

\* an attempt starts with byd_detect
StartAttempt(kind) ==
    /\ hs_pc = "idle"
    /\ nattempts < MaxAttempts
    /\ attempt' = kind
    /\ hs_pc' = "d_reset"
    /\ param' = <<0, 0, 0, 0>>
    /\ knock' = 0
    /\ i' = 0
    /\ error' = 0
    /\ detect_ret' = <<>>
    /\ init_ret' = <<>>
    /\ ret' = <<>>
    /\ sent' = <<>>
    /\ allocated' = FALSE
    /\ magic' = <<>>
    /\ nattempts' = nattempts + 1
    /\ UNCHANGED <<session, active, private, live,
                   old_timers>>
    /\ UNCHANGED svars

\* the first connect of a device: byd_detect(psmouse, 1), then byd_init
StartConnect ==
    /\ session = "none"
    /\ StartAttempt("connect")

\* byd_reconnect on a bound session: byd_detect(psmouse, 0), then byd_init
StartReconnect ==
    /\ session = "bound"
    /\ StartAttempt("reconnect")

\* psmouse_reset: a reset that completes leaves the device deactivated; its
\* result is not looked at by byd_detect or byd_init
ResetEffect(ok, act) == IF ok THEN FALSE ELSE act

DetectReset ==
    /\ hs_pc = "d_reset"
    /\ \E ok \in BOOLEAN :
        /\ sent' = Append(sent, Cmd("reset", 0, 0, ok))
        /\ active' = ResetEffect(ok, active)
    /\ param' = [param EXCEPT ![1] = 3]
    /\ hs_pc' = "d_knock"
    /\ UNCHANGED <<attempt, session, knock, i, error, detect_ret, init_ret, ret,
                   private, live, allocated, nattempts, magic,
                   old_timers>>
    /\ UNCHANGED svars

\* the magic knock: four SETRES, then GETINFO; the first failure returns -EIO
DetectKnockFails(ok) == ~ok

DetectKnock ==
    /\ hs_pc = "d_knock"
    /\ \E ok \in BOOLEAN :
        /\ sent' = Append(sent, Cmd(IF knock < 4 THEN "setres" ELSE "getinfo", 0,
                                    param[1], ok))
        /\ IF DetectKnockFails(ok)
           THEN /\ detect_ret' = <<-EIO>>
                /\ hs_pc' = "d_ret"
                /\ UNCHANGED <<param, knock>>
           ELSE IF knock < 4
           THEN /\ knock' = knock + 1
                /\ UNCHANGED <<param, detect_ret, hs_pc>>
           ELSE /\ \E b0 \in {0, 3} : \E sig \in SignatureValues :
                      param' = <<b0, sig[1], sig[2], param[4]>>
                /\ hs_pc' = "d_match"
                /\ UNCHANGED <<knock, detect_ret>>
    /\ UNCHANGED <<attempt, session, i, error, init_ret, ret, active, private, live,
                   allocated, nattempts, magic,
                   old_timers>>
    /\ UNCHANGED svars

\* i == ARRAY_SIZE(byd_model_data): no match found
NoMatch(pm) == ModelIndex(pm) = Len(byd_model_data) + 1

DetectMatch ==
    /\ hs_pc = "d_match"
    /\ IF NoMatch(param)
       THEN /\ detect_ret' = <<-EINVAL>>
            /\ hs_pc' = "d_ret"
       ELSE /\ hs_pc' = "d_props"
            /\ UNCHANGED detect_ret
    /\ UNCHANGED <<attempt, session, param, knock, i, error, init_ret, ret, sent,
                   active, private, live, allocated, nattempts, magic,
                   old_timers>>
    /\ UNCHANGED svars

\* if (set_properties) { ...; psmouse->private = NULL; ... } return 0
DetectSetProperties ==
    /\ hs_pc = "d_props"
    /\ private' = IF attempt = "connect" THEN "NULL" ELSE private
    /\ detect_ret' = <<0>>
    /\ hs_pc' = "d_ret"
    /\ UNCHANGED <<attempt, session, param, knock, i, error, init_ret, ret, sent,
                   active, live, allocated, nattempts, magic,
                   old_timers>>
    /\ UNCHANGED svars

\* a byd_reconnect that goes on to byd_init whatever byd_detect returned
ReconnectCallsInit_Always(dret) == TRUE

\* byd_reconnect: if (byd_detect(psmouse, 0)) return -1
ReconnectCallsInit(dret) == dret = <<0>>

ReconnectAfterDetect ==
    /\ hs_pc = "d_ret" /\ attempt = "reconnect"
    /\ IF ReconnectCallsInit(detect_ret)
       THEN /\ hs_pc' = "i_reset"
            /\ UNCHANGED <<ret, session>>
       ELSE /\ ret' = <<-1>>
            /\ session' = "failed"
            /\ hs_pc' = "idle"
    /\ UNCHANGED <<attempt, param, knock, i, error, detect_ret, init_ret, sent,
                   active, private, live, allocated, nattempts, magic,
                   old_timers>>
    /\ UNCHANGED svars

\* the connect path: a failed detection ends the attempt, a match goes on to byd_init
ConnectAfterDetect ==
    /\ hs_pc = "d_ret" /\ attempt = "connect"
    /\ IF detect_ret = <<0>>
       THEN /\ hs_pc' = "i_reset"
            /\ UNCHANGED <<ret, session>>
       ELSE /\ ret' = detect_ret
            /\ session' = "none"
            /\ hs_pc' = "idle"
    /\ UNCHANGED <<attempt, param, knock, i, error, detect_ret, init_ret, sent,
                   active, private, live, allocated, nattempts, magic,
                   old_timers>>
    /\ UNCHANGED svars

InitReset ==
    /\ hs_pc = "i_reset"
    /\ \E ok \in BOOLEAN :
        /\ sent' = Append(sent, Cmd("reset", 0, 0, ok))
        /\ active' = ResetEffect(ok, active)
    /\ param' = <<0, 0, 0, 0>>
    /\ knock' = 0
    /\ i' = 0
    /\ error' = 0
    /\ hs_pc' = "i_rate"
    /\ UNCHANGED <<attempt, session, detect_ret, init_ret, ret, private, live,
                   allocated, nattempts, magic,
                   old_timers>>
    /\ UNCHANGED svars

\* param[0] = 200 / 100 / 80; ps2_command(.., PSMOUSE_CMD_SETRATE), result unused
InitSetRate ==
    /\ hs_pc = "i_rate"
    /\ \E ok \in BOOLEAN :
        sent' = Append(sent, Cmd("setrate", 0, InitRates[knock + 1], ok))
    /\ param' = [param EXCEPT ![1] = InitRates[knock + 1]]
    /\ knock' = knock + 1
    /\ hs_pc' = IF knock + 1 = Len(InitRates) THEN "i_getid" ELSE "i_rate"
    /\ UNCHANGED <<attempt, session, i, error, detect_ret, init_ret, ret, active,
                   private, live, allocated, nattempts, magic,
                   old_timers>>
    /\ UNCHANGED svars

\* ps2_command(.., PSMOUSE_CMD_GETID), result unused: param[0] is what the
\* transport left there, or the 80 of the last SETRATE
InitGetId ==
    /\ hs_pc = "i_getid"
    /\ \E ok \in BOOLEAN :
        /\ sent' = Append(sent, Cmd("getid", 0, param[1], ok))
        /\ \E v \in IdValues \cup (IF ok THEN {} ELSE {param[1]}) :
              param' = [param EXCEPT ![1] = v]
    /\ hs_pc' = "i_checkid"
    /\ UNCHANGED <<attempt, session, knock, i, error, detect_ret, init_ret, ret,
                   active, private, live, allocated, nattempts, magic,
                   old_timers>>
    /\ UNCHANGED svars

\* if (param[0] != 3) return -1
InitCheckId ==
    /\ hs_pc = "i_checkid"
    /\ IF param[1] # IntelliMouseId
       THEN /\ init_ret' = <<-1>>
            /\ hs_pc' = "i_ret"
       ELSE /\ hs_pc' = "i_activate"
            /\ UNCHANGED init_ret
    /\ UNCHANGED <<attempt, session, param, knock, i, error, detect_ret, ret, sent,
                   active, private, live, allocated, nattempts, magic,
                   old_timers>>
    /\ UNCHANGED svars

\* psmouse_activate(psmouse)
InitActivate ==
    /\ hs_pc = "i_activate"
    /\ sent' = Append(sent, Cmd("activate", 0, 0, TRUE))
    /\ active' = TRUE
    /\ hs_pc' = "i_enter"
    /\ UNCHANGED <<attempt, session, param, knock, i, error, detect_ret, init_ret,
                   ret, private, live, allocated, nattempts, magic,
                   old_timers>>
    /\ UNCHANGED svars

\* one vendor command of byd_init that jumps to init_fail with `err` when it
\* fails and goes on to `next` when it succeeds
InitStep(at, code, value, err, next) ==
    /\ hs_pc = at
    /\ \E ok \in BOOLEAN :
        /\ sent' = Append(sent, Cmd("pair", code, value, ok))
        /\ IF ok
           THEN /\ hs_pc' = next
                /\ UNCHANGED error
           ELSE /\ error' = err
                /\ hs_pc' = "i_fail"
    /\ UNCHANGED <<attempt, session, knock, i, detect_ret, init_ret, ret, active,
                   private, live, allocated, nattempts,
                   old_timers>>
    /\ UNCHANGED svars

\* enter command mode
InitEnterCommandMode ==
    /\ InitStep("i_enter", BYD_CMD_PAIR(CmdModeCode), 0, -EIO, "i_ident1")
    /\ param' = [param EXCEPT ![1] = 0]
    /\ UNCHANGED magic

\* send second identification command
InitIdent ==
    /\ InitStep("i_ident1", BYD_CMD_PAIR(CmdIdentCode), 2, -EIO, "i_ident2")
    /\ param' = [param EXCEPT ![1] = 2]
    /\ UNCHANGED magic

\* the query that reads the 4-byte magic back
InitReadMagic ==
    /\ InitStep("i_ident2", BYD_CMD_PAIR_R(4, CmdIdentCode), 1, -EIO, "i_magic")
    /\ \E m \in MagicValues :
          /\ param' = m
          /\ magic' = IF hs_pc' = "i_magic" THEN m ELSE magic

\* magic identifier the vendor driver reads
InitMagic ==
    /\ hs_pc = "i_magic"
    /\ IF MagicMismatch(param)
       THEN /\ error' = -EINVAL
            /\ hs_pc' = "i_fail"
       ELSE /\ hs_pc' = "i_cmds"
            /\ UNCHANGED error
    /\ UNCHANGED <<attempt, session, param, knock, i, detect_ret, init_ret, ret,
                   sent, active, private, live, allocated, nattempts, magic,
                   old_timers>>
    /\ UNCHANGED svars

\* a loop over init_commands that stops one entry early
AfterCommand_OneShort(n) == IF n = Len(init_commands) - 1 THEN "i_finalize" ELSE "i_cmds"

\* where the loop over init_commands goes after command number n succeeded
AfterCommand(n) == IF n = Len(init_commands) THEN "i_finalize" ELSE "i_cmds"

\* the entry of init_commands sent in iteration i (0-based, as in the source)
CommandAt(n) == init_commands[n + 1]

\* for (i = 0; i < ARRAY_SIZE(init_commands); i++) { ... }
InitCommand ==
    /\ hs_pc = "i_cmds"
    /\ \E ok \in BOOLEAN :
        /\ sent' = Append(sent, Cmd("pair", BYD_CMD_PAIR(CommandAt(i)[1]),
                                    CommandAt(i)[2], ok))
        /\ IF ok
           THEN /\ i' = i + 1
                /\ hs_pc' = AfterCommand(i + 1)
                /\ UNCHANGED error
           ELSE /\ error' = -EIO
                /\ hs_pc' = "i_fail"
                /\ UNCHANGED i
    /\ param' = [param EXCEPT ![1] = CommandAt(i)[2]]
    /\ UNCHANGED <<attempt, session, knock, detect_ret, init_ret, ret, active,
                   private, live, allocated, nattempts, magic,
                   old_timers>>
    /\ UNCHANGED svars

\* confirm/finalize the above vender command table
InitFinalize ==
    /\ InitStep("i_finalize", BYD_CMD_PAIR(CmdIdentCode), 0, -EIO, "i_exit")
    /\ param' = [param EXCEPT ![1] = 0]
    /\ UNCHANGED magic

\* exit command mode
InitExitCommandMode ==
    /\ InitStep("i_exit", BYD_CMD_PAIR(CmdModeCode), 1, -ENOMEM, "i_alloc")
    /\ param' = [param EXCEPT ![1] = 1]
    /\ UNCHANGED magic

\* priv = kzalloc(sizeof(*priv), GFP_KERNEL); if (!priv) ...
InitAlloc ==
    /\ hs_pc = "i_alloc"
    /\ \E ok \in BOOLEAN :
        IF ok
        THEN /\ allocated' = TRUE
             /\ live' = live + 1
             /\ hs_pc' = "i_setup"
             /\ UNCHANGED error
        ELSE /\ error' = -ENOMEM
             /\ hs_pc' = "i_fail"
             /\ UNCHANGED <<allocated, live>>
    /\ UNCHANGED <<attempt, session, param, knock, i, detect_ret, init_ret, ret,
                   sent, active, private, nattempts, magic,
                   old_timers>>
    /\ UNCHANGED svars

\* a byd_init that deletes the timer of the TouchState it replaces
ReplacedTimers_Deleted(ot, pending, left, t) == ot

\* psmouse->private = priv overwrites the pointer to the previous TouchState,
\* which is neither freed nor has its timer deleted: a timer that was armed
\* stays queued, with its deadline
ReplacedTimers(ot, pending, left, t) ==
    IF pending THEN Append(ot, U32(t + left)) ELSE ot

\* memset, setup_timer, psmouse->private = priv; return 0: the timer of the
\* new TouchState is not queued
InitSetup ==
    /\ hs_pc = "i_setup"
    /\ priv' = ZeroPriv
    /\ private' = "set"
    /\ old_timers' = ReplacedTimers(old_timers, timer_pending, timer_left, now)
    /\ timer_pending' = FALSE
    /\ timer_left' = 0
    /\ init_ret' = <<0>>
    /\ hs_pc' = "i_ret"
    /\ UNCHANGED <<attempt, session, param, knock, i, error, detect_ret, ret, sent,
                   active, live, allocated, nattempts, magic>>
    /\ UNCHANGED <<now, lock, pc, packet, now_msecs, pre,
                   pktcnt, hpc, reports, released, npackets, nticks>>

\* init_fail: psmouse_deactivate(psmouse); return error
FailDeactivates(act) == FALSE

InitFail ==
    /\ hs_pc = "i_fail"
    /\ sent' = Append(sent, Cmd("deactivate", 0, 0, TRUE))
    /\ active' = FailDeactivates(active)
    /\ init_ret' = <<error>>
    /\ hs_pc' = "i_ret"
    /\ UNCHANGED <<attempt, session, param, knock, i, error, detect_ret, ret,
                   private, live, allocated, nattempts, magic,
                   old_timers>>
    /\ UNCHANGED svars

\* byd_reconnect: if (byd_init(psmouse)) return -1; return 0
ReconnectAfterInit ==
    /\ hs_pc = "i_ret" /\ attempt = "reconnect"
    /\ ret' = IF init_ret # <<0>> THEN <<-1>> ELSE <<0>>
    /\ session' = IF init_ret # <<0>> THEN "failed" ELSE "bound"
    /\ hs_pc' = "idle"
    /\ UNCHANGED <<attempt, param, knock, i, error, detect_ret, init_ret, sent,
                   active, private, live, allocated, nattempts, magic,
                   old_timers>>
    /\ UNCHANGED svars

\* the connect path: the result of byd_init is the result of the attempt
ConnectAfterInit ==
    /\ hs_pc = "i_ret" /\ attempt = "connect"
    /\ ret' = init_ret
    /\ session' = IF init_ret # <<0>> THEN "none" ELSE "bound"
    /\ hs_pc' = "idle"
    /\ UNCHANGED <<attempt, param, knock, i, error, detect_ret, init_ret, sent,
                   active, private, live, allocated, nattempts, magic,
                   old_timers>>
    /\ UNCHANGED svars

\* byd_disconnect, on a bound session or after a failed reconnect
Disconnect ==
    /\ hs_pc = "idle"
    /\ session \in {"bound", "failed"}
    /\ IF private # "NULL"
       THEN /\ timer_pending' = FALSE
            /\ live' = live - 1
            /\ private' = "NULL"
       ELSE UNCHANGED <<timer_pending, live, private>>
    /\ session' = "none"
    /\ UNCHANGED <<hs_pc, attempt, param, knock, i, error, detect_ret, init_ret, ret,
                   sent, active, allocated, nattempts, magic,
                   old_timers>>
    /\ UNCHANGED <<priv, timer_left, now, lock, pc, packet, now_msecs, pre, pktcnt,
                   hpc, reports, released, npackets, nticks>>

NextHandshake ==
    \/ StartConnect
    \/ StartReconnect
    \/ DetectReset
    \/ DetectKnock
    \/ DetectMatch
    \/ DetectSetProperties
    \/ ReconnectAfterDetect
    \/ ConnectAfterDetect
    \/ InitReset
    \/ InitSetRate
    \/ InitGetId
    \/ InitCheckId
    \/ InitActivate
    \/ InitEnterCommandMode
    \/ InitIdent
    \/ InitReadMagic
    \/ InitMagic
    \/ InitCommand
    \/ InitFinalize
    \/ InitExitCommandMode
    \/ InitAlloc
    \/ InitSetup
    \/ InitFail
    \/ ReconnectAfterInit
    \/ ConnectAfterInit
    \/ Disconnect

SpecHandshake == HInit /\ [][NextHandshake]_vars

----------------------------------------------------------------------------
(* Properties of the handshake, checked under SpecHandshake *)

\* the commands of byd_init's vendor exchange ("pair" commands) sent so far
PairsSent == SelectSeq(sent, LAMBDA c : c.op = "pair")

\* the GETINFO of this attempt's byd_detect was answered
SignatureRead ==
    \E k \in 1..Len(sent) : sent[k].op = "getinfo" /\ sent[k].ok

\* the query that reads the magic back, as it appears in sent
IsReadMagic(c) == c.op = "pair" /\ c.cmd = 4096 + 4 * 256 + 224

\* the position in sent of the answered magic query, 0 when there is none
MagicAt ==
    IF \E k \in 1..Len(sent) : IsReadMagic(sent[k]) /\ sent[k].ok
    THEN CHOOSE k \in 1..Len(sent) : IsReadMagic(sent[k]) /\ sent[k].ok
    ELSE 0

\* what was sent after the answered magic query
AfterMagic == SubSeq(sent, MagicAt + 1, Len(sent))

\* the attempt is over
AttemptOver == hs_pc = "idle" /\ attempt # "none"

\* C5: when bytes 1..2 of the signature response are 03 64 the device is
\* matched; for every other value byd_detect returns the unrecognized-device
\* error, and then no vendor command (no command-mode entry, no InitCommand)
\* and no other command of byd_init is sent in that attempt: byd_init is not
\* called, by byd_reconnect as on connect.
C5_UnrecognizedSendsNothing ==
    /\ (hs_pc \in {"d_props", "d_ret"} /\ SignatureRead) =>
          IF <<param[2], param[3]>> = <<3, 100>>
          THEN hs_pc = "d_ret" => detect_ret = <<0>>
          ELSE hs_pc = "d_ret" /\ detect_ret = <<-EINVAL>>
    /\ detect_ret \notin {<<>>, <<0>>} =>
          /\ PairsSent = <<>>
          /\ \A k \in 1..Len(sent) : sent[k].op \in {"reset", "setres", "getinfo"}
          /\ init_ret = <<>>
          /\ hs_pc \in {"d_ret", "idle"}
          /\ ~allocated

\* C5 witness: a reconnect whose signature response was 03 65 is over
C5_Witness ==
    /\ AttemptOver /\ attempt = "reconnect"
    /\ SignatureRead /\ <<param[2], param[3]>> = <<3, 101>>
    /\ detect_ret = <<-EINVAL>>

\* C6: when the magic response differs from 08 01 01 31, byd_init aborts with
\* -EINVAL (not the -EIO of a failed command), sends no entry of the command
\* table and no exit-command-mode command (only the deactivation follows the
\* magic query), deactivates the device and allocates no TouchState.
C6_MagicMismatchAborts ==
    (magic # <<>> /\ magic # <<8, 1, 1, 49>> /\ hs_pc # "i_magic") =>
        /\ hs_pc \in {"i_fail", "i_ret", "idle"}
        /\ error = -EINVAL /\ error # -EIO
        /\ \A k \in 1..Len(AfterMagic) : AfterMagic[k].op = "deactivate"
        /\ ~allocated
        /\ hs_pc # "i_fail" =>
              /\ init_ret = <<-EINVAL>>
              /\ AfterMagic = <<Cmd("deactivate", 0, 0, TRUE)>>
              /\ ~active

\* C6 witness: an attempt that read 08 01 01 30, one byte off the magic, is over
C6_Witness ==
    /\ AttemptOver
    /\ magic = <<8, 1, 1, 48>>
    /\ init_ret = <<-EINVAL>>

\* the command table as the handshake must send it: code and value of entry k
TableCmd(k, ok) == Cmd("pair", 4096 + init_commands[k][1], init_commands[k][2], ok)

\* the first failed command after the magic query, 0 when none failed
FirstFailed ==
    IF \E k \in 1..Len(AfterMagic) : ~AfterMagic[k].ok
    THEN CHOOSE k \in 1..Len(AfterMagic) :
            ~AfterMagic[k].ok /\ \A j \in 1..(k - 1) : AfterMagic[j].ok
    ELSE 0

\* C7: in a handshake that reaches the command table, the 14 InitCommands
\* (handedness = 0x01 first, absolute mode = 0x02 last) are sent in table
\* order with the table's code and value, each once and none skipped; when
\* the k-th fails nothing but the deactivation follows it, byd_init returns
\* -EIO and the device is deactivated; on success the whole table was sent,
\* in order.
C7_TableOrder ==
    (MagicAt # 0 /\ AfterMagic # <<>> /\ AfterMagic[1].op = "pair") =>
        /\ Len(init_commands) = 14
        /\ init_commands[1] = <<211, 1>> /\ init_commands[14] = <<209, 2>>
        /\ \A k \in 1..Len(AfterMagic) :
              (k <= 14 /\ (FirstFailed = 0 \/ k <= FirstFailed)) =>
                  AfterMagic[k] = TableCmd(k, AfterMagic[k].ok)
        /\ (FirstFailed # 0 /\ FirstFailed <= 14) =>
              /\ Len(AfterMagic) <= FirstFailed + 1
              /\ hs_pc \in {"i_fail", "i_ret", "idle"}
              /\ ~allocated
              /\ hs_pc # "i_fail" =>
                    /\ AfterMagic[FirstFailed + 1] = Cmd("deactivate", 0, 0, TRUE)
                    /\ init_ret = <<-EIO>>
                    /\ ~active
        /\ (FirstFailed = 0 /\ hs_pc # "i_cmds") => Len(AfterMagic) >= 14
        /\ init_ret = <<0>> =>
              /\ Len(AfterMagic) = 16
              /\ \A k \in 1..14 : AfterMagic[k] = TableCmd(k, TRUE)

\* C7 witness: an attempt whose 7th table command failed is over
C7_Witness ==
    /\ AttemptOver
    /\ MagicAt # 0 /\ FirstFailed = 7
    /\ AfterMagic[7] = Cmd("pair", 4096 + 227, 1, FALSE)
    /\ Len(AfterMagic) = 8

\* C9, as claimed: every failed attempt, on connect and on reconnect, ends
\* with the device deactivated and with no TouchState allocated by it.
C9_FailureDeactivates ==
    (AttemptOver /\ ret # <<0>>) => ~active /\ ~allocated

\* C13, as claimed: the handshake stops at the first failure: once a reset
\* or a command of byd_detect or byd_init has failed, nothing more is sent to
\* the device in that attempt, except the deactivation that ends it.
C13_StopsAtFirstFailure ==
    \A k \in 1..Len(sent) :
        ~sent[k].ok => \A j \in (k + 1)..Len(sent) : sent[j].op = "deactivate"

\* a vendor command of byd_init failed in this attempt
PairFailed == \E k \in 1..Len(sent) : sent[k].op = "pair" /\ ~sent[k].ok

\* a command of the magic knock of byd_detect failed in this attempt
KnockFailed == \E k \in 1..Len(sent) : sent[k].op \in {"setres", "getinfo"} /\ ~sent[k].ok

\* C14, as claimed: each failed handshake returns the kind of its cause, and
\* the kinds have pairwise different values: a failed command gives -EIO,
\* never the -ENOMEM of a failed allocation; a wrong magic gives the
\* protocol-mismatch value -EINVAL; an unmatched signature gives a value that
\* is none of the others; a failed allocation gives -ENOMEM.
C14_ErrorKinds ==
    /\ (detect_ret # <<>> /\ KnockFailed) => detect_ret = <<-EIO>>
    /\ (detect_ret # <<>> /\ SignatureRead /\ NoMatch(param) /\ init_ret = <<>>
            /\ hs_pc \in {"d_ret", "idle"}) =>
          detect_ret \notin {<<0>>, <<-EIO>>, <<-EINVAL>>, <<-ENOMEM>>}
    /\ (init_ret # <<>> /\ PairFailed) =>
          init_ret = <<-EIO>> /\ init_ret # <<-ENOMEM>>
    /\ (init_ret # <<>> /\ magic # <<>> /\ MagicMismatch(magic)) =>
          init_ret = <<-EINVAL>>
    /\ (init_ret # <<>> /\ hs_pc # "i_fail" /\ ~PairFailed /\ ~allocated
            /\ magic # <<>> /\ ~MagicMismatch(magic)) =>
          init_ret = <<-ENOMEM>>

----------------------------------------------------------------------------
(* The life of a session: packets, the timer, byd_reconnect and            *)
(* byd_disconnect on a bound session                                       *)

\* the packets of the session runs: one relative packet, which sets touch
\* and arms the timer
SessionPackets == { <<0, 127, 0, BYD_PKT_RELATIVE>> }

\* bytes reach byd_process_byte while the session is bound and no handshake
\* is in progress
SessionRx == session = "bound" /\ hs_pc = "idle" /\ private = "set"

SessionPartialByte == SessionRx /\ ProcessPartialByte

SessionFullPacket == SessionRx /\ \E pk \in SessionPackets : ProcessFullPacket(pk)

\* the timer wheel calls byd_clear_touch for the expired timer of a replaced
\* TouchState: its data argument is the psmouse, as for every timer
ExpireOld ==
    /\ hpc = "none"
    /\ \E k \in 1..Len(old_timers) :
          /\ old_timers[k] = now
          /\ old_timers' = SubSeq(old_timers, 1, k - 1)
                             \o SubSeq(old_timers, k + 1, Len(old_timers))
    /\ hpc' = "wait"
    /\ UNCHANGED <<hs_pc, attempt, session, param, knock, i, error, detect_ret,
                   init_ret, ret, sent, active, private, live, allocated, magic,
                   nattempts>>
    /\ UNCHANGED <<priv, timer_pending, timer_left, now, lock, pc, packet, now_msecs,
                   pre, pktcnt, reports, released, npackets, nticks>>

\* the handler dereferences psmouse->private: its steps are followed while
\* there is a TouchState; a handler that finds none has faulted
SessionHandlerStep == private = "set" /\ HandlerStep

\* byd_reconnect and byd_disconnect are called with the receive path quiet
SessionReconnect == pc = "idle" /\ StartReconnect

\* the new TouchState is published while no handler holds the previous one
SessionInitSetup == hpc = "none" /\ InitSetup

\* the steps of a byd_reconnect in progress. The session runs follow the
\* handshakes in which every command completes; the device may still answer
\* with another signature, id or magic, and the allocation may fail
ReconnectStep ==
    /\ \/ DetectReset
       \/ DetectKnock
       \/ DetectMatch
       \/ DetectSetProperties
       \/ ReconnectAfterDetect
       \/ InitReset
       \/ InitSetRate
       \/ InitGetId
       \/ InitCheckId
       \/ InitActivate
       \/ InitEnterCommandMode
       \/ InitIdent
       \/ InitReadMagic
       \/ InitMagic
       \/ InitCommand
       \/ InitFinalize
       \/ InitExitCommandMode
       \/ InitAlloc
       \/ SessionInitSetup
       \/ InitFail
       \/ ReconnectAfterInit
    /\ \A k \in 1..Len(sent') : sent'[k].ok

SessionDisconnect == pc = "idle" /\ Disconnect

NextSession ==
    \/ Tick
    \/ SessionPartialByte
    \/ SessionFullPacket
    \/ CaseRelative
    \/ FinalReport
    \/ Rearm
    \/ Return
    \/ Expire
    \/ ExpireOld
    \/ SessionHandlerStep
    \/ SessionReconnect
    \/ ReconnectStep
    \/ SessionDisconnect

SpecSession == Init /\ [][NextSession]_vars

\* C11, as claimed: byd_disconnect leaves no timer of the TouchState it
\* releases armed, and no execution of byd_clear_touch (one that has started
\* or waits for the lock included) runs once the TouchState is released and
\* psmouse->private is NULL; stated for sessions that were never reconnected.
C11_NoHandlerAfterRelease ==
    nattempts = 0 =>
        /\ private = "NULL" => ~timer_pending
        /\ hpc # "none" => private = "set" /\ live = 1

\* C20, as claimed: at most one TouchState is live, and no timer of a
\* replaced TouchState is armed: none is left by a successful byd_reconnect,
\* and so none can fire after byd_disconnect has set private to NULL.
C20_OneLiveTouchState ==
    /\ live <= 1
    /\ old_timers = <<>>
    /\ private = "NULL" => live = 0

====
